---------------------------- MODULE Spec2Model ----------------------------
(***************************************************************************)
(* State-machine model of the multi-view map state engine of              *)
(* obsidian-leaflet (src/src/main.ts): the view registry (this.maps), the  *)
(* durable store (AppData.mapMarkers), the document-to-map associations    *)
(* (this.mapFiles), the per-map binding watchers, the code-block           *)
(* post-processor with its await points, the map event handlers and the    *)
(* save cycle.                                                             *)
(***************************************************************************)
EXTENDS Integers, Sequences, FiniteSets, TLC

VARIABLES
    mapMarkers, \* AppData.mapMarkers: the durable store, a sequence of records
    maps,       \* this.maps: the registry, a sequence of map-object references
    mapFiles,   \* this.mapFiles: sequence of [file, maps]
    heap,       \* the LeafletMap objects constructed so far, by reference
    cache,      \* metadataCache: the frontmatter of every document (TFile)
    paths,      \* the vault: the path of every document (TFile)
    pending,    \* handlers suspended at an await
    nextId,     \* number of ids handed out by getId()
    now,        \* Date.now()
    phase,      \* the plugin's lifecycle: "constructed", "loaded", "unloaded"
    ev          \* the operation that ran last

vars == <<mapMarkers, maps, mapFiles, heap, cache, paths, pending, nextId, now, phase,
         ev>>

docs == <<cache, paths>>

clock == <<now, phase>>

----------------------------------------------------------------------------
(* Bounds of the model *)

MaxObj == 3       \* LeafletRenderer objects constructed
MaxMarkers == 1   \* markers placed by the user
MaxNow == 2       \* days the clock advances
MaxPending == 1   \* marker-data-updated handlers suspended at a time
MaxInFlight == 1  \* renders between their first await and their registration

(* Program constants *)

RetentionMs == 604800000   \* 6.048e8, saveSettings
DayMs == 86400000

----------------------------------------------------------------------------
(* Values *)

NoId == "none"        \* params.id undefined / record without id
NoPath == <<>>        \* record without path (new format)
Absent == [id |-> 0]  \* undefined, as returned by find / getMarkerById

Range(s) == {s[i] : i \in 1..Len(s)}

MapSeq(s, F(_)) == [i \in 1..Len(s) |-> F(s[i])]

RECURSIVE Flatten(_)
Flatten(ss) == IF ss = <<>> THEN <<>> ELSE Head(ss) \o Flatten(Tail(ss))

\* Array.prototype.find: the first element satisfying the test, or undefined
FindFirst(s, T(_)) ==
    LET hits == SelectSeq(s, T) IN IF hits = <<>> THEN Absent ELSE Head(hits)

\* the last operation: its kind, the map object, marker and document it was
\* about, the ids of the records its save cycle dropped as stale, the map
\* objects whose removeMarker it called with the result of a failed lookup, and
\* the ids its save cycle found more than one record of, and the map objects
\* whose bound marker it moved, and whether the image layers it asked for
\* were resolved
NoEv ==
    [op |-> "init", ref |-> 0, mid |-> 0, doc |-> "none", gc |-> {}, miss |-> {},
     dup |-> {}, moved |-> {}, layers |-> TRUE]

Ev(op, ref, mid, doc) ==
    [op |-> op, ref |-> ref, mid |-> mid, doc |-> doc, gc |-> {}, miss |-> {},
     dup |-> {}, moved |-> {}, layers |-> TRUE]


----------------------------------------------------------------------------
(* Overlay geometry: radius specs, units *)

\* The numeric value of the magnitude part of a radius spec; NaN is -1
NaN == 0 - 1

MagValue(mag) ==
    CASE mag = "1" -> 1
      [] mag = "5" -> 5
      [] mag = "50" -> 50
      [] mag = "3000" -> 3000
      [] OTHER -> NaN

\* length.match(OVERLAY_TAG_REGEX): <<radius, unit>> of a spec "<number> <unit>",
\* no match when the spec does not start with a number
Match(len) ==
    IF MagValue(len.mag) = NaN
    THEN [ok |-> FALSE, radius |-> NaN, unit |-> "m"]
    ELSE [ok |-> TRUE, radius |-> MagValue(len.mag),
          unit |-> IF len.unit = "" THEN "m" ELSE len.unit]

\* convert(x).from(unit).to("m"), in units of 0.1 mm to stay in the integers
ToMeters(radius, unit) ==
    CASE unit = "km" -> radius * 10000000
      [] unit = "ft" -> radius * 3048
      [] OTHER -> radius * 10000

\* the comparator of overlayArray.sort: negative when a sorts before b
CompareOverlaysAscending(a, b) == ToMeters(a.radius, a.unit) - ToMeters(b.radius, b.unit)

CompareOverlays(a, b) == ToMeters(b.radius, b.unit) - ToMeters(a.radius, a.unit)

\* Array.prototype.sort with that comparator (stable): insertion of each element
\* after the last element that does not sort after it
RECURSIVE InsertSorted(_, _)
InsertSorted(sorted, x) ==
    IF sorted = <<>> THEN <<x>>
    ELSE IF CompareOverlays(Head(sorted), x) <= 0
         THEN <<Head(sorted)>> \o InsertSorted(Tail(sorted), x)
         ELSE <<x>> \o sorted

RECURSIVE SortOverlays(_)
SortOverlays(s) ==
    IF s = <<>> THEN <<>>
    ELSE InsertSorted(SortOverlays(SubSeq(s, 1, Len(s) - 1)), s[Len(s)])

----------------------------------------------------------------------------
(* Map State Model: the operations of LeafletMap used by main.ts *)

Marker(id, type, loc, link, mutable) ==
    [id |-> id, type |-> type, loc |-> loc, link |-> link, mutable |-> mutable]

\* map.getMarkerById(id) / markers.find((m) => m.id == id)
GetMarkerById(markers, id) ==
    LET Is(m) == m.id = id IN FindFirst(markers, Is)

HasMarker(markers, id) == \E i \in 1..Len(markers) : markers[i].id = id

\* map.createMarker(icon, loc, link, id, layer, mutable, command): appends
CreateMarker(markers, m) == Append(markers, m)

\* map.addMarker(marker): the sibling's replica of a marker
AddMarker(markers, m) == Append(markers, m)

\* map.removeMarker(marker): by identity; nothing to do for an absent marker
RemoveMarkerSplice(markers, m) ==
    IF \E i \in 1..Len(markers) : markers[i].id = m.id
    THEN LET Keep(x) == x.id # m.id IN SelectSeq(markers, Keep)
    ELSE SubSeq(markers, 1, Len(markers) - 1)

RemoveMarker(markers, m) ==
    LET Keep(x) == x.id # m.id IN SelectSeq(markers, Keep)

\* map.addOverlay(data, mutable)
AddOverlay(overlays, o, mutable) ==
    Append(overlays, [id |-> o.id, radius |-> o.radius, unit |-> o.unit,
                      mutable |-> mutable])

\* marker.setLatLng / marker.loc = ...
SetLoc(markers, id, loc) ==
    [i \in 1..Len(markers) |->
        IF markers[i].id = id THEN [markers[i] EXCEPT !.loc = loc] ELSE markers[i]]

\* map.loadData(record): the persisted markers and overlays become mutable
\* entities of the map; a binding-derived marker of the same id is kept
LoadData(o, rec) ==
    IF rec = Absent THEN o
    ELSE LET New(m) == ~HasMarker(o.markers, m.id)
             Mk(m) == Marker(m.id, m.type, m.loc, m.link, TRUE)
             Ov(x) == [id |-> 0, radius |-> x.radius, unit |-> x.unit,
                       mutable |-> TRUE]
         IN [o EXCEPT !.markers = @ \o MapSeq(SelectSeq(rec.markers, New), Mk),
                      !.overlays = @ \o MapSeq(rec.overlays, Ov)]

----------------------------------------------------------------------------
(* Persistence merge and GC: saveSettings *)

\* the flat persisted shape of a marker / an overlay
MarkerData(m) == [id |-> m.id, type |-> m.type, loc |-> m.loc, link |-> m.link]

OverlayData(x) == [radius |-> x.radius, unit |-> x.unit]

IsMutable(x) == x.mutable

\* markers: map.map.markers.filter(({ mutable }) => mutable).map(...)
PersistMarkersAll(markers) == MapSeq(markers, MarkerData)

PersistMarkers(markers) == MapSeq(SelectSeq(markers, IsMutable), MarkerData)

PersistOverlays(overlays) == MapSeq(SelectSeq(overlays, IsMutable), OverlayData)

\* files: this.mapFiles.filter(({ maps }) => maps.indexOf(map.id) > -1).map(file)
FilesOf(mf, id) ==
    LET Embeds(e) == id \in Range(e.maps)
        File(e) == e.file
    IN MapSeq(SelectSeq(mf, Embeds), File)

FreshRecord(o, mf, t) ==
    [id |-> o.id, path |-> NoPath, files |-> FilesOf(mf, o.id),
     lastAccessed |-> t, markers |-> PersistMarkers(o.markers),
     overlays |-> PersistOverlays(o.overlays)]

\* this.maps.forEach: remove the records of the map's id, append a fresh one
RECURSIVE MergeMapsFirstOnly(_, _, _, _, _)
MergeMapsFirstOnly(mm, refs, hp, mf, t) ==
    IF refs = <<>> THEN mm
    ELSE LET o == hp[Head(refs)]
             Other(i) == mm[i].id # o.id \/ \E j \in 1..(i - 1) : mm[j].id = o.id
             kept == SelectSeq([i \in 1..Len(mm) |-> i], Other)
         IN MergeMapsFirstOnly(
                Append([i \in 1..Len(kept) |-> mm[kept[i]]], FreshRecord(o, mf, t)),
                Tail(refs), hp, mf, t)

RECURSIVE MergeMaps(_, _, _, _, _)
MergeMaps(mm, refs, hp, mf, t) ==
    IF refs = <<>> THEN mm
    ELSE LET o == hp[Head(refs)]
             Other(r) == r.id # o.id
         IN MergeMaps(Append(SelectSeq(mm, Other), FreshRecord(o, mf, t)),
                      Tail(refs), hp, mf, t)

\* ({ markers, overlays }) => markers.length > 0 || overlays.length > 0
NonEmptyOffByOne(r) == Len(r.markers) > 0 \/ Len(r.overlays) >= 0

NonEmpty(r) == Len(r.markers) > 0 \/ Len(r.overlays) > 0

\* ({ id, files, lastAccessed }) =>
\*     !id || files.length || Date.now() - lastAccessed <= 6.048e8
RetainedIgnoringFiles(r, t) == r.id = NoId \/ t - r.lastAccessed <= RetentionMs

RetainedStrict(r, t) ==
    r.id = NoId \/ Len(r.files) > 0 \/ t - r.lastAccessed < RetentionMs

Retained(r, t) ==
    r.id = NoId \/ Len(r.files) > 0 \/ t - r.lastAccessed <= RetentionMs

SaveSettings(mm, refs, hp, mf, t) ==
    LET Keep(r) == Retained(r, t)
    IN SelectSeq(SelectSeq(MergeMaps(mm, refs, hp, mf, t), NonEmpty), Keep)

\* the ids of the records the retention filter of that save cycle removes
Collected(mm, refs, hp, mf, t) ==
    {r.id : r \in {x \in Range(SelectSeq(MergeMaps(mm, refs, hp, mf, t), NonEmpty)) :
                      ~Retained(x, t)}}

\* the ids that have more than one record in the store a save cycle starts from
Duplicated(mm) ==
    {mm[i].id : i \in {k \in 1..Len(mm) : \E j \in 1..Len(mm) :
                                             j # k /\ mm[j].id = mm[k].id}} \ {NoId}

SavedEv(op, ref, mid, doc, mm, refs, hp, mf, t) ==
    [op |-> op, ref |-> ref, mid |-> mid, doc |-> doc,
     gc |-> Collected(mm, refs, hp, mf, t), miss |-> {},
     dup |-> Duplicated(mm), moved |-> {}, layers |-> TRUE]

----------------------------------------------------------------------------
(* External documents and their structured metadata *)

\* the documents (TFile objects)
Docs == {"f1", "f2"}

DocIx(d) == IF d = "f1" THEN 1 ELSE 2

\* the id getImmutableItems gives the binding of document d in map object ref
BindId(ref, d) == 100 * ref + DocIx(d)

Num(n) == [isNum |-> TRUE, v |-> n]

NotNum == [isNum |-> FALSE, v |-> 0]

NoLocation == [kind |-> "none", elems |-> <<>>]

NoOverlays == [kind |-> "none", entries |-> <<>>]

\* getFileCache(file): fm is FALSE for a document without frontmatter
NoFrontmatter ==
    [fm |-> FALSE, location |-> NoLocation, mapmarker |-> "none",
     mapoverlay |-> NoOverlays]

\* location.length == 2 && location.every((v) => typeof v == "number")
WellFormedLocationAnyLength(location) ==
    /\ location.kind = "array"
    /\ Len(location.elems) >= 2
    /\ \A i \in 1..Len(location.elems) : location.elems[i].isNum

WellFormedLocation(location) ==
    /\ location.kind = "array"
    /\ Len(location.elems) = 2
    /\ \A i \in 1..Len(location.elems) : location.elems[i].isNum

LatLng(location) == <<location.elems[1].v, location.elems[2].v>>

\* getImmutableItems: the markers, overlays and watched files of the documents
\* a block declares as sources
ImmutableMarkers(ref, bound, c) ==
    LET HasLoc(d) == c[d].fm /\ WellFormedLocation(c[d].location)
        Mk(d) == Marker(BindId(ref, d),
                        IF c[d].mapmarker = "none" THEN "default" ELSE c[d].mapmarker,
                        LatLng(c[d].location), paths[d], FALSE)
    IN MapSeq(SelectSeq(bound, HasLoc), Mk)

ImmutableOverlays(ref, bound, c) ==
    LET Of(d) == IF c[d].fm /\ c[d].mapoverlay.kind = "array"
                 THEN [i \in 1..Len(c[d].mapoverlay.entries) |->
                          [len |-> c[d].mapoverlay.entries[i], id |-> BindId(ref, d)]]
                 ELSE <<>>
    IN Flatten(MapSeq(bound, Of))

----------------------------------------------------------------------------
(* The code-block post-processor *)

\* Update Old Map Data Format
Migrate(mm, src, image, id, t) ==
    LET Trigger(r) == (r.path = <<src, image>> /\ r.id = NoId) \/ r.path = <<src, id>>
        Old(r) == r.path = <<src, image>> \/ r.path = <<src, id>>
        ix == CHOOSE i \in 1..Len(mm) :
                  /\ Old(mm[i])
                  /\ \A j \in 1..(i - 1) : ~Old(mm[j])
        data == mm[ix]
    IN IF \E i \in 1..Len(mm) : Trigger(mm[i])
       THEN Append([i \in 1..(Len(mm) - 1) |-> IF i < ix THEN mm[i] ELSE mm[i + 1]],
                   [id |-> id, path |-> NoPath, files |-> <<src>>,
                    lastAccessed |-> t, markers |-> data.markers,
                    overlays |-> data.overlays])
       ELSE mm

\* [...overlay, ...immutableOverlays]
RawOverlays(ref, p, c) ==
    LET Declared(len) == [len |-> len, id |-> 0]
    IN MapSeq(p.overlay, Declared) \o ImmutableOverlays(ref, p.bound, c)

\* no entry throws "Could not parse overlay radius"
OverlaysParse(raw) == \A i \in 1..Len(raw) : Match(raw[i].len).ok

\* .map(([color, loc, length, desc, id]) => [color, loc, Number(radius), unit, desc, id])
OverlayArray(raw) ==
    LET Parse(x) == [id |-> x.id, radius |-> Match(x.len).radius,
                     unit |-> Match(x.len).unit]
    IN MapSeq(raw, Parse)

\* for (... of overlayArray) map.addOverlay({...}, false)
RECURSIVE AddOverlays(_, _)
AddOverlays(overlays, arr) ==
    IF arr = <<>> THEN overlays
    ELSE AddOverlays(AddOverlay(overlays, Head(arr), FALSE), Tail(arr))

\* new LeafletRenderer(...).map with the immutable markers created (lines 188-240);
\* decl keeps the overlay declarations the render read
NewMap(ref, el, src, p, c) ==
    [id |-> p.id, el |-> el, src |-> src, image |-> p.image, pc |-> "error",
     markers |-> ImmutableMarkers(ref, p.bound, c), overlays |-> <<>>,
     watchers |-> {}, decl |-> RawOverlays(ref, p, c)]

\* if (!id) throw new Error("ID required")
IdNeverMissing(p) == FALSE

MissingId(p) == p.id = NoId

\* lines 124-438: parameters, id check, migration, new LeafletRenderer, the
\* immutable markers, the overlays parsed, sorted and added, the watchers
\* registered, up to the await of _getCoordinates (the await of
\* getImmutableItems at line 209 is not a separate step: the metadata is read
\* as of this step)
RenderStart(el, src, p) ==
    /\ phase = "loaded"
    /\ Len(heap) < MaxObj
    /\ Cardinality({r \in 1..Len(heap) : heap[r].pc \in {"items", "loaded"}}) < MaxInFlight
    /\ LET ref == Len(heap) + 1
           raw == RawOverlays(ref, p, cache)
           map == NewMap(ref, el, src, p, cache)
       IN IF MissingId(p)
          THEN /\ ev' = Ev("render-error", 0, 0, src)
               /\ UNCHANGED <<mapMarkers, heap>>
          ELSE /\ mapMarkers' = Migrate(mapMarkers, src, p.image, p.id, now)
               /\ IF ~OverlaysParse(raw)
                  THEN /\ heap' = Append(heap, map)
                       /\ ev' = Ev("render-error", ref, 0, src)
                  ELSE /\ heap' = Append(heap,
                              [map EXCEPT
                                  !.overlays = AddOverlays(<<>>, SortOverlays(OverlayArray(raw))),
                                  !.watchers = Range(p.bound),
                                  !.pc = "items"])
                       /\ ev' = Ev("render-items", ref, 0, src)
    /\ UNCHANGED <<maps, mapFiles, docs, pending, nextId, clock>>

\* lines 438-467: mapData = mapMarkers.find(id), await map.loadData(mapData)
RenderLoad(ref) ==
    /\ ref \in 1..Len(heap)
    /\ heap[ref].pc = "items"
    /\ LET o == heap[ref]
           SameId(r) == r.id = o.id
           mapData == FindFirst(mapMarkers, SameId)
       IN heap' = [heap EXCEPT ![ref] = [LoadData(o, mapData) EXCEPT !.pc = "loaded"]]
    /\ ev' = Ev("render-load", ref, 0, heap[ref].src)
    /\ UNCHANGED <<mapMarkers, maps, mapFiles, docs, pending, nextId, clock>>

\* this.maps = this.maps.filter((m) => m.el != el); this.maps.push(...)
RegisterAppending(refs, hp, ref) == Append(refs, ref)

Register(refs, hp, ref) ==
    LET OtherEl(r) == hp[r].el # hp[ref].el IN Append(SelectSeq(refs, OtherEl), ref)

\* lines 512-521
AddMapFile(mf, src, id) ==
    IF \E i \in 1..Len(mf) : mf[i].file = src
    THEN LET ix == CHOOSE i \in 1..Len(mf) :
                       mf[i].file = src /\ \A j \in 1..(i - 1) : mf[j].file # src
         IN [mf EXCEPT ![ix].maps = Append(@, id)]
    ELSE Append(mf, [file |-> src, maps |-> <<id>>])

\* if (image != "real") ... if (layerData.filter((d) => !d.data).length) throw
LayersNeverInvalid(image, layersOk) == FALSE

LayersInvalid(image, layersOk) == image # "real" /\ ~layersOk

\* lines 469-528: the image layers resolved, the map events and the view
\* registered, the save cycle
RenderRegister(ref, layersOk) ==
    /\ ref \in 1..Len(heap)
    /\ heap[ref].pc = "loaded"
    /\ heap[ref].image # "real" \/ layersOk
    /\ LET o == heap[ref] IN
       IF LayersInvalid(o.image, layersOk)
       THEN /\ heap' = [heap EXCEPT ![ref].pc = "error"]
            /\ ev' = [Ev("render-error", ref, 0, o.src) EXCEPT !.layers = layersOk]
            /\ UNCHANGED <<mapMarkers, maps, mapFiles>>
       ELSE /\ heap' = [heap EXCEPT ![ref].pc = "active"]
            /\ maps' = Register(maps, heap, ref)
            /\ mapFiles' = AddMapFile(mapFiles, o.src, o.id)
            /\ mapMarkers' = SaveSettings(mapMarkers, maps', heap', mapFiles', now)
            /\ ev' = [SavedEv("render-done", ref, 0, o.src,
                              mapMarkers, maps', heap', mapFiles', now) EXCEPT
                         !.layers = layersOk]
    /\ UNCHANGED <<docs, pending, nextId, clock>>

----------------------------------------------------------------------------
(* Multi-view synchronizer: registerMapEvents, handleMarkerContext *)

\* no render is between the await of map.loadData, which performs no I/O, and
\* its continuation: that continuation runs before the next user, vault or
\* timer event is dispatched. (A render of an image map then awaits the I/O of
\* toDataURL, during which events are dispatched.)
Settled == \A r \in 1..Len(heap) : ~(heap[r].pc = "loaded" /\ heap[r].image = "real")

\* the views a user can act on
Active == IF phase = "loaded" /\ Settled THEN Range(maps) ELSE {}

Locs == {<<0, 0>>, <<1, 2>>}

Types == {"default", "pin"}

\* this.maps.filter(({ id, map: m }) => id == map.id && m.contentEl != map.contentEl)
SiblingsWithSelf(refs, hp, ref) ==
    LET Sib(r) == hp[r].id = hp[ref].id IN SelectSeq(refs, Sib)

Siblings(refs, hp, ref) ==
    LET Sib(r) == hp[r].id = hp[ref].id /\ r # ref IN SelectSeq(refs, Sib)

\* .forEach((map) => { map.map.addMarker(marker) })
RECURSIVE BroadcastAdd(_, _, _)
BroadcastAdd(hp, sibs, m) ==
    IF sibs = <<>> THEN hp
    ELSE BroadcastAdd([hp EXCEPT ![Head(sibs)].markers = AddMarker(@, m)],
                      Tail(sibs), m)

\* .forEach: existingMarker = markers.find(id); if (!existingMarker) return;
\* existingMarker.loc = marker.loc
RECURSIVE BroadcastLocCreating(_, _, _, _)
BroadcastLocCreating(hp, sibs, id, loc) ==
    IF sibs = <<>> THEN hp
    ELSE BroadcastLocCreating(
             IF GetMarkerById(hp[Head(sibs)].markers, id) = Absent
             THEN [hp EXCEPT ![Head(sibs)].markers =
                       AddMarker(@, Marker(id, "default", loc, "x", TRUE))]
             ELSE [hp EXCEPT ![Head(sibs)].markers = SetLoc(@, id, loc)],
             Tail(sibs), id, loc)

RECURSIVE BroadcastLoc(_, _, _, _)
BroadcastLoc(hp, sibs, id, loc) ==
    IF sibs = <<>> THEN hp
    ELSE BroadcastLoc(
             IF GetMarkerById(hp[Head(sibs)].markers, id) = Absent THEN hp
             ELSE [hp EXCEPT ![Head(sibs)].markers = SetLoc(@, id, loc)],
             Tail(sibs), id, loc)

\* the user places a marker in a registered view (map click, or the drop
\* handler, lines 761-776): createMarker emits marker-added, whose handler
\* (lines 778-792) replicates the marker to the siblings and saves
MarkerAdded(ref, type, loc, link) ==
    /\ ref \in Active
    /\ nextId < MaxMarkers
    /\ LET m == Marker(nextId + 1, type, loc, link, TRUE)
           created == [heap EXCEPT ![ref].markers = CreateMarker(@, m)]
       IN /\ heap' = BroadcastAdd(created, Siblings(maps, created, ref), m)
          /\ nextId' = nextId + 1
          /\ mapMarkers' = SaveSettings(mapMarkers, maps, heap', mapFiles, now)
          /\ ev' = SavedEv("marker-added", ref, m.id, "none",
                           mapMarkers, maps, heap', mapFiles, now)
    /\ UNCHANGED <<maps, mapFiles, docs, pending, clock>>

\* a marker of a registered view is being dragged: the marker-dragging handler
\* (lines 794-813) copies the loc the marker object holds to the siblings that
\* have a marker of that id, and does not save
MarkerDragging(ref, mid) ==
    /\ ref \in Active
    /\ HasMarker(heap[ref].markers, mid)
    /\ GetMarkerById(heap[ref].markers, mid).mutable
    /\ heap' = BroadcastLoc(heap, Siblings(maps, heap, ref), mid,
                            GetMarkerById(heap[ref].markers, mid).loc)
    /\ ev' = Ev("marker-dragging", ref, mid, "none")
    /\ UNCHANGED <<mapMarkers, maps, mapFiles, docs, pending, nextId, clock>>

\* a marker of a registered view is moved (drag end, or edited): the map
\* updates the marker and emits marker-data-updated, whose handler
\* (lines 815-838) first awaits saveSettings
MarkerDataUpdated(ref, mid, loc) ==
    /\ ref \in Active
    /\ HasMarker(heap[ref].markers, mid)
    /\ GetMarkerById(heap[ref].markers, mid).mutable
    /\ GetMarkerById(heap[ref].markers, mid).loc # loc
    /\ Cardinality({h \in pending : h.kind = "updated"}) < MaxPending
    /\ heap' = [heap EXCEPT ![ref].markers = SetLoc(@, mid, loc)]
    /\ mapMarkers' = SaveSettings(mapMarkers, maps, heap', mapFiles, now)
    /\ pending' = pending \cup {[kind |-> "updated", ref |-> ref, mid |-> mid,
                                 loc |-> <<>>, others |-> <<>>, found |-> <<>>]}
    /\ ev' = SavedEv("marker-data-updated", ref, mid, "none",
                     mapMarkers, maps, heap', mapFiles, now)
    /\ UNCHANGED <<maps, mapFiles, docs, nextId, clock>>

\* the loc of the marker object a suspended handler holds
HeldLoc(hp, h) ==
    IF HasMarker(hp[h.ref].markers, h.mid)
    THEN GetMarkerById(hp[h.ref].markers, h.mid).loc
    ELSE h.loc

\* ... and, the save written, sends the marker's location to the siblings
MarkerDataUpdatedResume(h) ==
    /\ h \in pending
    /\ h.kind = "updated"
    /\ heap' = BroadcastLoc(heap, Siblings(maps, heap, h.ref), h.mid, HeldLoc(heap, h))
    /\ pending' = pending \ {h}
    /\ ev' = Ev("marker-data-updated-done", h.ref, h.mid, "none")
    /\ UNCHANGED <<mapMarkers, maps, mapFiles, docs, nextId, clock>>

\* a marker leaves a map: the handlers suspended on that marker object keep
\* the location it had
Detach(pend, hp, ref, mid) ==
    {IF h.kind = "updated" /\ h.ref = ref /\ h.mid = mid /\ HasMarker(hp[ref].markers, mid)
     THEN [h EXCEPT !.loc = GetMarkerById(hp[ref].markers, mid).loc]
     ELSE h : h \in pend}


RECURSIVE DetachAll(_, _, _, _)
DetachAll(pend, hp, refs, mid) ==
    IF refs = <<>> THEN pend
    ELSE DetachAll(Detach(pend, hp, Head(refs), mid), hp, Tail(refs), mid)

NoModal == \A h \in pending : h.kind # "context"

\* marker-context: handleMarkerContext up to markerSettingsModal.open()
\* (lines 1015-1026, 1056): otherMaps and markersToUpdate are fixed here
MarkerContext(ref, mid) ==
    /\ ref \in Active
    /\ NoModal
    /\ HasMarker(heap[ref].markers, mid)
    /\ GetMarkerById(heap[ref].markers, mid).mutable
    /\ LET otherMaps == Siblings(maps, heap, ref)
           Found(r) == HasMarker(heap[r].markers, mid)
       IN pending' = pending \cup {[kind |-> "context", ref |-> ref, mid |-> mid,
                                    loc |-> <<>>, others |-> otherMaps,
                                    found |-> MapSeq(otherMaps, Found)]}
    /\ ev' = Ev("marker-context", ref, mid, "none")
    /\ UNCHANGED <<mapMarkers, maps, mapFiles, heap, docs, nextId, clock>>

\* the sibling loop of the deletion: otherMarker = oM.map.markers.find(id);
\* oM.map.removeMarker(otherMarker)
RECURSIVE RemoveFound(_, _, _)
RemoveFound(hp, refs, mid) ==
    IF refs = <<>> THEN hp
    ELSE RemoveFound([hp EXCEPT ![Head(refs)].markers =
                          RemoveMarker(@, GetMarkerById(@, mid))],
                     Tail(refs), mid)

\* onClose with markerSettingsModal.deleted (lines 1028-1035)
ContextDeleted(h) ==
    /\ h \in pending
    /\ Settled
    /\ h.kind = "context"
    /\ LET all == <<h.ref>> \o h.others
       IN /\ heap' = RemoveFound(heap, all, h.mid)
          /\ pending' = DetachAll(pending \ {h}, heap, all, h.mid)
    /\ ev' = [Ev("context-deleted", h.ref, h.mid, "none") EXCEPT
                 !.miss = {h.others[i] : i \in {j \in 1..Len(h.others) :
                                                  ~HasMarker(heap[h.others[j]].markers, h.mid)}}]
    /\ UNCHANGED <<mapMarkers, maps, mapFiles, docs, nextId, clock>>

\* m.link = tempMarker.link; m.icon = ...(tempMarker.type)
SetData(markers, id, type, link) ==
    [i \in 1..Len(markers) |->
        IF markers[i].id = id
        THEN [markers[i] EXCEPT !.type = type, !.link = link]
        ELSE markers[i]]

\* markersToUpdate.forEach: stops at the first undefined entry (TypeError)
RECURSIVE UpdateFound(_, _, _, _, _, _)
UpdateFound(hp, refs, found, mid, type, link) ==
    IF refs = <<>> \/ ~Head(found) THEN hp
    ELSE UpdateFound([hp EXCEPT ![Head(refs)].markers = SetData(@, mid, type, link)],
                     Tail(refs), Tail(found), mid, type, link)

\* onClose without deletion (lines 1036-1053)
ContextEdited(h, type, link) ==
    /\ h \in pending
    /\ Settled
    /\ h.kind = "context"
    /\ pending' = pending \ {h}
    /\ heap' = UpdateFound(heap, <<h.ref>> \o h.others, <<TRUE>> \o h.found,
                           h.mid, type, link)
    /\ IF \A i \in 1..Len(h.found) : h.found[i]
       THEN /\ mapMarkers' = SaveSettings(mapMarkers, maps, heap', mapFiles, now)
            /\ ev' = SavedEv("context-edited", h.ref, h.mid, "none",
                             mapMarkers, maps, heap', mapFiles, now)
       ELSE /\ UNCHANGED mapMarkers
            /\ ev' = Ev("context-error", h.ref, h.mid, "none")
    /\ UNCHANGED <<maps, mapFiles, docs, nextId, clock>>

----------------------------------------------------------------------------
(* External binding watcher: the handlers a render registers (lines 285-436) *)

\* the objects whose render registered watchers, in order of construction
Watching(hp, f) ==
    LET W(r) == f \in hp[r].watchers IN SelectSeq([i \in 1..Len(hp) |-> i], W)

BoundOverlays(overlays, fileId) ==
    LET Tagged(x) == x.id = fileId IN SelectSeq(overlays, Tagged)

\* map.overlays = map.overlays.filter(({ id }) => id != fileId)
DropOverlaysOfBindings(overlays, fileId) ==
    LET Untagged(x) == x.id = 0 IN SelectSeq(overlays, Untagged)

DropOverlays(overlays, fileId) ==
    LET Untagged(x) == x.id # fileId IN SelectSeq(overlays, Untagged)

\* cache.frontmatter.mapoverlay?.forEach: a malformed entry is skipped
RECURSIVE AddDeclared(_, _, _)
AddDeclared(overlays, entries, fileId) ==
    IF entries = <<>> THEN overlays
    ELSE AddDeclared(
             IF Match(Head(entries)).ok
             THEN AddOverlay(overlays, [id |-> fileId, radius |-> Match(Head(entries)).radius,
                                        unit |-> Match(Head(entries)).unit], FALSE)
             ELSE overlays,
             Tail(entries), fileId)

\* the 'changed' handler of one map for a watched file (lines 287-393)
ChangedHandler(o, fileId, fm) ==
    IF ~fm.fm THEN o
    ELSE LET marker == GetMarkerById(o.markers, fileId)
             moved == IF /\ marker # Absent
                         /\ fm.location.kind = "array"
                         /\ WellFormedLocation(fm.location)
                         /\ marker.loc # LatLng(fm.location)
                      THEN SetLoc(o.markers, fileId, LatLng(fm.location))
                      ELSE o.markers
             typed == IF marker # Absent /\ fm.mapmarker \in Types
                      THEN [i \in 1..Len(moved) |->
                               IF moved[i].id = fileId
                               THEN [moved[i] EXCEPT !.type = fm.mapmarker]
                               ELSE moved[i]]
                      ELSE moved
             dropped == DropOverlays(o.overlays, fileId)
         IN [o EXCEPT !.markers = typed,
                      !.overlays = IF fm.mapoverlay.kind = "array"
                                   THEN AddDeclared(dropped, fm.mapoverlay.entries, fileId)
                                   ELSE dropped]

RECURSIVE RunChanged(_, _, _, _)
RunChanged(hp, refs, f, fm) ==
    IF refs = <<>> THEN hp
    ELSE RunChanged([hp EXCEPT ![Head(refs)] = ChangedHandler(@, BindId(Head(refs), f), fm)],
                    Tail(refs), f, fm)

\* a document's content changes: metadataCache 'changed'
MetadataChanged(f, fm) ==
    /\ phase = "loaded"
    /\ Settled
    /\ cache[f] # fm
    /\ cache' = [cache EXCEPT ![f] = fm]
    /\ heap' = RunChanged(heap, Watching(heap, f), f, fm)
    /\ ev' = [Ev("changed", 0, 0, f) EXCEPT
                 !.moved = {r \in Range(Watching(heap, f)) :
                               /\ HasMarker(heap[r].markers, BindId(r, f))
                               /\ GetMarkerById(heap'[r].markers, BindId(r, f)).loc
                                      # GetMarkerById(heap[r].markers, BindId(r, f)).loc}]
    /\ UNCHANGED <<mapMarkers, maps, mapFiles, paths, pending, nextId, clock>>

\* the vault 'delete' handler of one map for a watched file (lines 397-415)
DeleteHandlerKeepingWatcher(o, f, fileId) ==
    [o EXCEPT !.markers = RemoveMarker(@, GetMarkerById(@, fileId)),
              !.overlays = DropOverlays(@, fileId)]

DeleteHandler(o, f, fileId) ==
    [o EXCEPT !.markers = RemoveMarker(@, GetMarkerById(@, fileId)),
              !.overlays = DropOverlays(@, fileId),
              !.watchers = @ \ {f}]

RECURSIVE RunDelete(_, _, _)
RunDelete(hp, refs, f) ==
    IF refs = <<>> THEN hp
    ELSE RunDelete([hp EXCEPT ![Head(refs)] = DeleteHandler(@, f, BindId(Head(refs), f))],
                   Tail(refs), f)

\* the plugin's vault 'delete' handler (lines 90-100)
DeleteMapFile(mf, path) ==
    LET Other(e) == e.file # path IN SelectSeq(mf, Other)

HasMapFile(mf, path) == \E i \in 1..Len(mf) : mf[i].file = path

\* the maps whose delete handler finds no marker of the document
FailedLookups(hp, f) ==
    {r \in Range(Watching(hp, f)) : ~HasMarker(hp[r].markers, BindId(r, f))}

\* a document is deleted: the plugin's handler, then the maps' handlers
VaultDelete(f) ==
    /\ phase = "loaded"
    /\ Settled
    /\ IF HasMapFile(mapFiles, paths[f])
       THEN /\ mapFiles' = DeleteMapFile(mapFiles, paths[f])
            /\ mapMarkers' = SaveSettings(mapMarkers, maps, heap, mapFiles', now)
            /\ ev' = [SavedEv("delete-saved", 0, 0, f,
                              mapMarkers, maps, heap, mapFiles', now) EXCEPT
                         !.miss = FailedLookups(heap, f)]
       ELSE /\ UNCHANGED <<mapFiles, mapMarkers>>
            /\ ev' = [Ev("delete", 0, 0, f) EXCEPT !.miss = FailedLookups(heap, f)]
    /\ heap' = RunDelete(heap, Watching(heap, f), f)
    /\ UNCHANGED <<maps, docs, pending, nextId, clock>>

\* the plugin's vault 'rename' handler (lines 79-87)
RenameMapFileKeepingOld(mf, oldPath, path) ==
    LET ix == CHOOSE i \in 1..Len(mf) :
                  mf[i].file = oldPath /\ \A j \in 1..(i - 1) : mf[j].file # oldPath
    IN Append(mf, [file |-> path, maps |-> mf[ix].maps])

RenameMapFile(mf, oldPath, path) ==
    LET ix == CHOOSE i \in 1..Len(mf) :
                  mf[i].file = oldPath /\ \A j \in 1..(i - 1) : mf[j].file # oldPath
    IN [mf EXCEPT ![ix].file = path]

\* the vault 'rename' handler of one map for a watched file (lines 419-434)
RenameHandler(o, fileId, fm, linktext) ==
    IF ~fm.fm THEN o
    ELSE [o EXCEPT !.markers =
             [i \in 1..Len(@) |->
                 IF @[i].id = fileId THEN [@[i] EXCEPT !.link = linktext] ELSE @[i]]]

RECURSIVE RunRename(_, _, _, _)
RunRename(hp, refs, f, path) ==
    IF refs = <<>> THEN hp
    ELSE RunRename([hp EXCEPT ![Head(refs)] =
                        RenameHandler(@, BindId(Head(refs), f), cache[f], path)],
                   Tail(refs), f, path)

\* a document is renamed: the plugin's handler, then the maps' handlers
VaultRename(f, path) ==
    /\ phase = "loaded"
    /\ Settled
    /\ \A g \in Docs : paths[g] # path
    /\ paths' = [paths EXCEPT ![f] = path]
    /\ IF HasMapFile(mapFiles, paths[f])
       THEN /\ mapFiles' = RenameMapFile(mapFiles, paths[f], path)
            /\ mapMarkers' = SaveSettings(mapMarkers, maps, heap, mapFiles', now)
            /\ ev' = SavedEv("rename-saved", 0, 0, f, mapMarkers, maps, heap, mapFiles', now)
       ELSE /\ UNCHANGED <<mapFiles, mapMarkers>>
            /\ ev' = Ev("rename", 0, 0, f)
    /\ heap' = RunRename(heap, Watching(heap, f), f, path)
    /\ UNCHANGED <<maps, cache, pending, nextId, now, phase>>

----------------------------------------------------------------------------
(* Lifecycle and clock *)

\* onload -> loadSettings (lines 626-641): the stored payload, then a save cycle
OnLoad ==
    /\ phase = "constructed"
    /\ phase' = "loaded"
    /\ mapMarkers' = SaveSettings(mapMarkers, maps, heap, mapFiles, now)
    /\ ev' = SavedEv("load", 0, 0, "none", mapMarkers, maps, heap, mapFiles, now)
    /\ UNCHANGED <<maps, mapFiles, heap, docs, pending, nextId, now>>

\* time passes
Tick(d) ==
    /\ Settled
    /\ phase = "loaded"
    /\ d = DayMs \/ now % DayMs = 0
    /\ now + d <= MaxNow * DayMs + 1
    /\ now' = now + d
    /\ ev' = Ev("tick", 0, 0, "none")
    /\ UNCHANGED <<mapMarkers, maps, mapFiles, heap, docs, pending, nextId, phase>>

----------------------------------------------------------------------------
(* The views of a map: renders, user edits and save cycles *)

Block(id, image, overlay, bound) ==
    [id |-> id, image |-> image, overlay |-> overlay, bound |-> bound]

SyncBlocks == {Block("A", "real", <<>>, <<>>), Block("B", "img", <<>>, <<>>),
               Block(NoId, "real", <<>>, <<>>)}

\* the markers a user places
Placements == {<<"default", <<0, 0>>>>, <<"pin", <<1, 2>>>>}

InitCommon ==
    /\ maps = <<>>
    /\ mapFiles = <<>>
    /\ heap = <<>>
    /\ paths = [f \in Docs |-> IF f = "f1" THEN "d1" ELSE "d2"]
    /\ pending = {}
    /\ nextId = 0
    /\ now = 0
    /\ phase = "constructed"
    /\ ev = NoEv

Init ==
    /\ InitCommon
    /\ mapMarkers = <<>>
    /\ cache = [f \in Docs |-> NoFrontmatter]

Render ==
    \/ \E ref \in 1..MaxObj : RenderLoad(ref)
    \/ \E ref \in 1..MaxObj, ok \in BOOLEAN : RenderRegister(ref, ok)

Edit ==
    \/ \E ref \in 1..MaxObj, m \in Placements : MarkerAdded(ref, m[1], m[2], "x")
    \/ \E ref \in 1..MaxObj, mid \in 1..MaxMarkers, loc \in Locs :
           MarkerDataUpdated(ref, mid, loc)
    \/ \E ref \in 1..MaxObj, mid \in 1..MaxMarkers : MarkerDragging(ref, mid)
    \/ \E h \in pending : MarkerDataUpdatedResume(h)
    \/ \E ref \in 1..MaxObj, mid \in 1..MaxMarkers : MarkerContext(ref, mid)
    \/ \E h \in pending : ContextDeleted(h)
    \/ \E h \in pending : ContextEdited(h, "pin", "y")

\* the elements rendered so far and one more (which one is immaterial)
ElsToRender ==
    LET used == {heap[r].el : r \in 1..Len(heap)}
    IN used \cup (IF "e1" \notin used THEN {"e1"}
                  ELSE IF "e2" \notin used THEN {"e2"}
                  ELSE IF "e3" \notin used THEN {"e3"} ELSE {})

Next ==
    \/ OnLoad
    \/ \E el \in ElsToRender, p \in SyncBlocks : RenderStart(el, "d1", p)
    \/ Render
    \/ Edit

Spec == Init /\ [][Next]_vars

----------------------------------------------------------------------------
(* The durable store over time: stored payloads, the clock, save cycles *)

\* a marker as a save cycle wrote it
StoredMarker == [id |-> 9, type |-> "default", loc |-> <<0, 0>>, link |-> "x"]

\* what an earlier session can have written: records that passed the filter
\* of empty records, of any age, attached or not
StoredRecords ==
    {[id |-> id, path |-> NoPath, files |-> files, lastAccessed |-> 0 - age,
      markers |-> <<StoredMarker>>, overlays |-> <<>>] :
        id \in {"A", "G"}, files \in {<<>>, <<"d1">>},
        age \in {6 * DayMs, 7 * DayMs, 7 * DayMs + 1, 20 * DayMs}}

InitGC ==
    /\ InitCommon
    /\ cache = [f \in Docs |-> NoFrontmatter]
    /\ \/ mapMarkers = <<>>
       \/ \E r \in StoredRecords : mapMarkers = <<r>>
       \/ \E r, q \in StoredRecords : r.id # q.id /\ mapMarkers = <<r, q>>

GCBlocks == {Block("A", "real", <<>>, <<>>)}

NextGC ==
    \/ OnLoad
    \/ \E d \in {1, DayMs} : Tick(d)
    \/ \E p \in GCBlocks : RenderStart("e1", "d1", p)
    \/ \E ref \in 1..MaxObj : RenderLoad(ref) \/ RenderRegister(ref, TRUE)
    \/ \E ref \in 1..MaxObj : MarkerAdded(ref, "pin", <<1, 2>>, "x")
    \/ VaultDelete("f1")
    \/ VaultRename("f1", "d3")

SpecGC == InitGC /\ [][NextGC]_vars

----------------------------------------------------------------------------
(* Bound documents: renders of a block that names a document, the document's
   versions, its deletion and renaming *)

\* an overlay length as written: "<number> <unit>"
Length(mag, unit) == [mag |-> mag, unit |-> unit]

Doc(location, mapoverlay) ==
    [fm |-> TRUE, location |-> location, mapmarker |-> "none", mapoverlay |-> mapoverlay]

Loc12 == [kind |-> "array", elems |-> <<Num(1), Num(2)>>]

Loc00 == [kind |-> "array", elems |-> <<Num(0), Num(0)>>]

LocMalformed == [kind |-> "array", elems |-> <<NotNum, Num(2)>>]

LocThree == [kind |-> "array", elems |-> <<Num(0), Num(0), Num(5)>>]

Overlays(entries) == [kind |-> "array", entries |-> entries]

\* the versions of the bound document
DocVersions ==
    {NoFrontmatter,
     Doc(Loc12, Overlays(<<Length("5", "m"), Length("1", "km")>>)),
     Doc(Loc12, Overlays(<<Length("5", "m")>>)),
     Doc(Loc12, NoOverlays),
     Doc(LocMalformed, Overlays(<<Length("5", "m"), Length("1", "km")>>)),
     Doc(Loc12, Overlays(<<Length("5", "m"), Length("abc", "")>>))}

BindBlocks == {Block("A", "real", <<Length("1", "m")>>, <<"f1">>)}

InitBind ==
    /\ InitCommon
    /\ mapMarkers = <<>>
    /\ \E v \in DocVersions : cache = [f \in Docs |-> IF f = "f1" THEN v ELSE NoFrontmatter]

NextBind ==
    \/ OnLoad
    \/ \E el \in ElsToRender, p \in BindBlocks : RenderStart(el, "d2", p)
    \/ \E ref \in 1..MaxObj : RenderLoad(ref) \/ RenderRegister(ref, TRUE)
    \/ \E v \in DocVersions : MetadataChanged("f1", v)
    \/ VaultDelete("f1")

SpecBind == InitBind /\ [][NextBind]_vars

----------------------------------------------------------------------------
(* The life of a bound document: its location edited, the document renamed
   and deleted *)

MaxBound == 2     \* maps bound to the document

WatchVersions ==
    {NoFrontmatter,
     Doc(Loc12, Overlays(<<Length("5", "m")>>)),
     Doc(Loc00, Overlays(<<Length("5", "m")>>)),
     Doc(LocMalformed, Overlays(<<Length("5", "m")>>)),
     Doc(LocThree, NoOverlays)}

InitWatch ==
    /\ InitCommon
    /\ mapMarkers = <<>>
    /\ \E v \in WatchVersions : cache = [f \in Docs |-> IF f = "f1" THEN v ELSE NoFrontmatter]

NextWatch ==
    \/ OnLoad
    \/ \E el \in ElsToRender, p \in BindBlocks :
           Len(heap) < MaxBound /\ RenderStart(el, "d2", p)
    \/ \E ref \in 1..MaxObj : RenderLoad(ref) \/ RenderRegister(ref, TRUE)
    \/ \E v \in WatchVersions : MetadataChanged("f1", v)
    \/ VaultDelete("f1")
    \/ VaultRename("f1", "d3")

SpecWatch == InitWatch /\ [][NextWatch]_vars

----------------------------------------------------------------------------
(* Removal of markers: by the deletion of a bound document and by the context
   deletion in a view with siblings *)

RemoveBlocks == {Block("A", "real", <<>>, <<"f1">>), Block("B", "img", <<>>, <<>>)}

InitRemove ==
    /\ InitCommon
    /\ mapMarkers = <<>>
    /\ \E v \in {NoFrontmatter, Doc(Loc12, NoOverlays)} :
           cache = [f \in Docs |-> IF f = "f1" THEN v ELSE NoFrontmatter]

NextRemove ==
    \/ OnLoad
    \/ \E el \in ElsToRender, p \in RemoveBlocks : RenderStart(el, "d2", p)
    \/ \E ref \in 1..MaxObj : RenderLoad(ref) \/ RenderRegister(ref, TRUE)
    \/ \E ref \in 1..MaxObj : MarkerAdded(ref, "pin", <<1, 2>>, "x")
    \/ \E ref \in 1..MaxObj, mid \in 1..MaxMarkers : MarkerContext(ref, mid)
    \/ \E h \in pending : ContextDeleted(h)
    \/ VaultDelete("f1")

SpecRemove == InitRemove /\ [][NextRemove]_vars

----------------------------------------------------------------------------
(* Renders of blocks that declare overlays *)

MaxOverlays == 3  \* overlay declarations of a block

RenderLengths ==
    {Length("5", "m"), Length("50", "m"), Length("1", ""), Length("3000", "ft"),
     Length("1", "km"), Length("abc", "")}

RECURSIVE SeqsUpTo(_, _)
SeqsUpTo(S, n) ==
    IF n = 0 THEN {<<>>}
    ELSE SeqsUpTo(S, n - 1) \cup
         {Append(s, x) : s \in {t \in SeqsUpTo(S, n - 1) : Len(t) = n - 1}, x \in S}

RenderDeclarations == SeqsUpTo(RenderLengths, MaxOverlays)

\* the declarations of the block itself, as the first render read them
DeclaredBy(o) ==
    LET Own(x) == x.id = 0
        Len_(x) == x.len
    IN MapSeq(SelectSeq(o.decl, Own), Len_)

InitRender ==
    /\ InitCommon
    /\ mapMarkers = <<>>
    /\ \E v \in {NoFrontmatter, Doc(Loc12, Overlays(<<Length("1", "km")>>)),
                 Doc(Loc12, Overlays(<<Length("abc", "")>>))} :
           cache = [f \in Docs |-> IF f = "f1" THEN v ELSE NoFrontmatter]

\* a document's block is rendered, and rendered again in other elements
NextRender ==
    \/ OnLoad
    \/ \E el \in ElsToRender, bound \in {<<>>, <<"f1">>} :
           \E overlay \in IF heap = <<>> THEN RenderDeclarations
                           ELSE {DeclaredBy(heap[1])} :
               RenderStart(el, "d2", Block("A", "real", overlay, bound))
    \/ \E ref \in 1..MaxObj : RenderLoad(ref) \/ RenderRegister(ref, TRUE)

SpecRender == InitRender /\ [][NextRender]_vars

----------------------------------------------------------------------------
(* Views that hold entities of both kinds: markers and overlays of a bound
   document beside those the user placed or a record brought *)

StoredOverlay == [radius |-> 50, unit |-> "ft"]

PersistBlocks == {Block("A", "real", <<Length("1", "m")>>, <<"f1">>)}

PersistVersions ==
    {Doc(Loc12, Overlays(<<Length("5", "m"), Length("1", "km")>>)),
     Doc(Loc12, NoOverlays),
     Doc(NoLocation, Overlays(<<Length("5", "m")>>))}

InitPersist ==
    /\ InitCommon
    /\ \/ mapMarkers = <<>>
       \/ mapMarkers = <<[id |-> "A", path |-> NoPath, files |-> <<"d2">>,
                          lastAccessed |-> 0, markers |-> <<StoredMarker>>,
                          overlays |-> <<StoredOverlay>>]>>
       \/ mapMarkers = <<[id |-> "A", path |-> NoPath, files |-> <<"d2">>,
                          lastAccessed |-> 0, markers |-> <<>>,
                          overlays |-> <<StoredOverlay>>]>>
    /\ \E v \in PersistVersions :
           cache = [f \in Docs |-> IF f = "f1" THEN v ELSE NoFrontmatter]

NextPersist ==
    \/ OnLoad
    \/ \E el \in ElsToRender, p \in PersistBlocks : RenderStart(el, "d2", p)
    \/ \E el \in ElsToRender :
           RenderStart(el, "d2", Block(NoId, "real", <<Length("1", "m")>>, <<"f1">>))
    \/ \E ref \in 1..MaxObj : RenderLoad(ref) \/ RenderRegister(ref, TRUE)
    \/ \E ref \in 1..MaxObj : MarkerAdded(ref, "pin", <<1, 2>>, "x")
    \/ \E v \in PersistVersions : MetadataChanged("f1", v)

SpecPersist == InitPersist /\ [][NextPersist]_vars

----------------------------------------------------------------------------
(* Stores written by earlier versions: records keyed by path, migrated at
   render *)

\* a record of the old format: no id, the path of the document and the image
\* or id of the map
OldRecord(path) ==
    [id |-> NoId, path |-> path, files |-> <<>>, lastAccessed |-> 0 - DayMs,
     markers |-> <<StoredMarker>>, overlays |-> <<>>]

IdRecord(id) ==
    [id |-> id, path |-> NoPath, files |-> <<"d1">>, lastAccessed |-> 0 - DayMs,
     markers |-> <<StoredMarker>>, overlays |-> <<StoredOverlay>>]

MigrateRecords ==
    {OldRecord(<<"d1", "real">>), OldRecord(<<"d1", "A">>), OldRecord(<<"d3", "real">>),
     IdRecord("A"), IdRecord("G")}

MigrateBlocks == {Block("A", "real", <<>>, <<>>)}

InitMigrate ==
    /\ InitCommon
    /\ cache = [f \in Docs |-> NoFrontmatter]
    /\ \/ \E r \in MigrateRecords : mapMarkers = <<r>>
       \/ \E r, q \in MigrateRecords : r # q /\ mapMarkers = <<r, q>>

NextMigrate ==
    \/ OnLoad
    \/ \E el \in ElsToRender, p \in MigrateBlocks : RenderStart(el, "d1", p)
    \/ \E ref \in 1..MaxObj : RenderLoad(ref) \/ RenderRegister(ref, TRUE)
    \/ \E ref \in 1..MaxObj : MarkerAdded(ref, "pin", <<1, 2>>, "x")

SpecMigrate == InitMigrate /\ [][NextMigrate]_vars

----------------------------------------------------------------------------
(* Stores that hold records keyed by path with and without an id *)

\* a record keyed by path that carries an id
PathIdRecord(path, id) ==
    [id |-> id, path |-> path, files |-> <<>>, lastAccessed |-> 0 - DayMs,
     markers |-> <<StoredMarker>>, overlays |-> <<StoredOverlay>>]

LegacyRecords ==
    {OldRecord(<<"d1", "real">>), OldRecord(<<"d1", "A">>), OldRecord(<<"d3", "real">>),
     PathIdRecord(<<"d1", "A">>, "A"), PathIdRecord(<<"d1", "real">>, "G"),
     IdRecord("G")}

InitLegacy ==
    /\ InitCommon
    /\ cache = [f \in Docs |-> NoFrontmatter]
    /\ \/ \E r \in LegacyRecords : mapMarkers = <<r>>
       \/ \E r, q \in LegacyRecords : r # q /\ mapMarkers = <<r, q>>

NextLegacy ==
    \/ OnLoad
    \/ \E el \in ElsToRender, p \in MigrateBlocks : RenderStart(el, "d1", p)
    \/ \E ref \in 1..MaxObj : RenderLoad(ref) \/ RenderRegister(ref, TRUE)

SpecLegacy == InitLegacy /\ [][NextLegacy]_vars

----------------------------------------------------------------------------
(* The initial coordinates of a render: the lat, long and coordinates
   parameters, the location of a linked document, _getCoordinates *)

\* JavaScript values: undefined, null, NaN, an integer, a text (its characters)
JsUndefined == [t |-> "undefined", s |-> <<>>, n |-> 0]

JsNull == [t |-> "null", s |-> <<>>, n |-> 0]

JsNaN == [t |-> "nan", s |-> <<>>, n |-> 0]

JsNumber(n) == [t |-> "number", s |-> <<>>, n |-> n]

JsString(s) == [t |-> "string", s |-> s, n |-> 0]

DigitChars == <<"0", "1", "2", "3", "4", "5", "6", "7", "8", "9">>

IsDigit(ch) == ch \in Range(DigitChars)

DigitValue(ch) == (CHOOSE i \in 1..10 : DigitChars[i] = ch) - 1

\* Number.prototype.toString of an integer
RECURSIVE DigitsOf(_)
DigitsOf(n) ==
    IF n < 10 THEN <<DigitChars[n + 1]>>
    ELSE DigitsOf(n \div 10) \o <<DigitChars[(n % 10) + 1]>>

NumberToString(n) == IF n < 0 THEN <<"-">> \o DigitsOf(0 - n) ELSE DigitsOf(n)

\* `${v}`
TemplateString(v) ==
    CASE v.t = "string" -> v.s
      [] v.t = "number" -> NumberToString(v.n)
      [] v.t = "nan" -> <<"N", "a", "N">>
      [] v.t = "null" -> <<"n", "u", "l", "l">>
      [] OTHER -> <<"u", "n", "d", "e", "f", "i", "n", "e", "d">>

\* s.split("%").shift()
RECURSIVE SplitShift(_)
SplitShift(s) ==
    IF s = <<>> \/ Head(s) = "%" THEN <<>> ELSE <<Head(s)>> \o SplitShift(Tail(s))

RECURSIVE TrimStart(_)
TrimStart(s) == IF s # <<>> /\ Head(s) = " " THEN TrimStart(Tail(s)) ELSE s

RECURSIVE TrimEnd(_)
TrimEnd(s) ==
    IF s # <<>> /\ s[Len(s)] = " " THEN TrimEnd(SubSeq(s, 1, Len(s) - 1)) ELSE s

RECURSIVE DigitsValue(_)
DigitsValue(s) ==
    IF s = <<>> THEN 0
    ELSE 10 * DigitsValue(SubSeq(s, 1, Len(s) - 1)) + DigitValue(s[Len(s)])

\* Number(s) of a text, for integer numerals: white space trimmed, the empty
\* text is 0, an optional sign and digits are their value, anything else NaN
StringToNumber(s) ==
    LET t == TrimEnd(TrimStart(s))
        signed == t # <<>> /\ Head(t) \in {"-", "+"}
        body == IF signed THEN Tail(t) ELSE t
    IN IF t = <<>> THEN JsNumber(0)
       ELSE IF body # <<>> /\ \A i \in 1..Len(body) : IsDigit(body[i])
            THEN JsNumber(IF Head(t) = "-" THEN 0 - DigitsValue(body)
                          ELSE DigitsValue(body))
            ELSE JsNaN

\* !v
Falsy(v) ==
    \/ v.t \in {"undefined", "null", "nan"}
    \/ v.t = "string" /\ v.s = <<>>
    \/ v.t = "number" /\ v.n = 0

\* s.replace(/(\[|\])/, ""): the first bracket removed
RECURSIVE RemoveFirstBracket(_)
RemoveFirstBracket(s) ==
    IF s = <<>> THEN <<>>
    ELSE IF Head(s) \in {"[", "]"} THEN Tail(s)
         ELSE <<Head(s)>> \o RemoveFirstBracket(Tail(s))

\* the characters of a document path
PathText(path) == <<"d", CHOOSE ch \in Range(DigitChars) : path = "d" \o ch>>

\* metadataCache.getFirstLinkpathDest(linkpath, ""): the document, or null
NoFile == "null"

LinkDest(linkpath, pp) ==
    IF \E f \in Docs : PathText(pp[f]) = linkpath
    THEN CHOOSE f \in Docs : PathText(pp[f]) = linkpath
    ELSE NoFile

\* an element of a frontmatter location as a JavaScript value; an element
\* that is not a number is the text "x"
JsOf(e) == IF e.isNum THEN JsNumber(e.v) ELSE JsString(<<"x">>)

LocationAt(location, i) ==
    IF i <= Len(location.elems) THEN JsOf(location.elems[i]) ELSE JsUndefined

\* lines 546-590: latitude and longitude as _getCoordinates selects them, from
\* the location of the linked document, from the two coordinates, or from
\* lat and long
SelectedSource(lat, long, coordinates, c, pp) ==
    LET file == IF coordinates # <<>>
                THEN LinkDest(RemoveFirstBracket(coordinates[1]), pp)
                ELSE NoFile
    IN IF coordinates = <<>> THEN <<lat, long>>
       ELSE IF file # NoFile
            THEN IF c[file].fm /\ c[file].location.kind = "array"
                 THEN <<LocationAt(c[file].location, 1), LocationAt(c[file].location, 2)>>
                 ELSE <<lat, long>>
            ELSE IF Len(coordinates) = 2
                 THEN <<JsString(coordinates[1]), JsString(coordinates[2])>>
                 ELSE <<lat, long>>

\* lines 592-599: Number(`${latitude}`?.split("%").shift())
ParseComponent(v) == StringToNumber(SplitShift(TemplateString(v)))

\* lines 607-622: 50 for an image map, the settings value for a real map
MapDefault(type, setting) == IF type # "real" THEN 50 ELSE setting

\* if (!latitude || isNaN(coords[0])) coords[0] = <default>
Fallback(v, parsed, dflt) ==
    IF Falsy(v) \/ parsed.t = "nan" THEN JsNumber(dflt) ELSE parsed

\* _getCoordinates (546-623): the pair it returns
GetCoordinates(lat, long, coordinates, type, c, pp, settings) ==
    LET sel == SelectedSource(lat, long, coordinates, c, pp)
    IN <<Fallback(sel[1], ParseComponent(sel[1]), MapDefault(type, settings[1])),
         Fallback(sel[2], ParseComponent(sel[2]), MapDefault(type, settings[2]))>>

\* lines 133-134: lat = `${this.AppData.lat}` when the block gives none
ParamOrSetting(v, setting) ==
    IF v.t = "undefined" THEN JsString(NumberToString(setting)) ELSE v

\* what the block being rendered gives, and the settings
CoordsCall(type, lat, long, coordinates, settings) ==
    [op |-> "coords-call", type |-> type, lat |-> lat, long |-> long,
     coordinates |-> coordinates, settings |-> settings,
     coords |-> <<JsUndefined, JsUndefined>>]

\* lines 126-148 and 438-444: the parameters destructured, _getCoordinates
\* awaited
RenderCoordinates ==
    /\ ev.op = "coords-call"
    /\ ev' = [ev EXCEPT
                !.op = "coords-return",
                !.coords = GetCoordinates(ParamOrSetting(ev.lat, ev.settings[1]),
                                          ParamOrSetting(ev.long, ev.settings[2]),
                                          ev.coordinates, ev.type, cache, paths,
                                          ev.settings)]
    /\ UNCHANGED <<mapMarkers, maps, mapFiles, heap, cache, paths, pending, nextId,
                   now, phase>>

\* the values of lat and of long a block gives
LatParams ==
    {JsUndefined, JsNull, JsString(<<>>), JsString(<<" ">>), JsString(<<"0">>),
     JsString(<<"1", "2">>), JsString(<<"-", "7">>), JsString(<<"5", "0", "%">>),
     JsString(<<"a", "b">>), JsString(<<"1", "a">>)}

LongParams == {JsUndefined, JsString(<<"0">>), JsString(<<"3">>), JsString(<<"x">>)}

\* the coordinates parameter: none, a link to f1, a link to no document, two
\* numerals, a numeral and a text
CoordinatesParams ==
    {<<>>, <<<<"d", "1">>>>, <<<<"[", "d", "1">>>>, <<<<"z">>>>,
     <<<<"4">>, <<"0">>>>, <<<<"4">>, <<"n">>>>}

LocOne == [kind |-> "array", elems |-> <<Num(7)>>]

\* the versions of the linked document
CoordsVersions ==
    {NoFrontmatter, Doc(NoLocation, NoOverlays), Doc(Loc12, NoOverlays),
     Doc(Loc00, NoOverlays), Doc(LocMalformed, NoOverlays), Doc(LocOne, NoOverlays)}

SettingsLatLong == <<39, 0 - 82>>

InitCoords ==
    /\ mapMarkers = <<>>
    /\ maps = <<>>
    /\ mapFiles = <<>>
    /\ heap = <<>>
    /\ paths = [f \in Docs |-> IF f = "f1" THEN "d1" ELSE "d2"]
    /\ pending = {}
    /\ nextId = 0
    /\ now = 0
    /\ phase = "loaded"
    /\ \E v \in CoordsVersions :
           cache = [f \in Docs |-> IF f = "f1" THEN v ELSE NoFrontmatter]
    /\ \E type \in {"real", "image"}, lat \in LatParams, long \in LongParams,
          coordinates \in CoordinatesParams :
           ev = CoordsCall(type, lat, long, coordinates, SettingsLatLong)

NextCoords == RenderCoordinates

SpecCoords == InitCoords /\ [][NextCoords]_vars

----------------------------------------------------------------------------
(* Documents that embed a map: a map rendered from two documents, markers
   placed and moved, the documents renamed and deleted *)

FilesBlocks == {Block("A", "real", <<>>, <<>>)}

InitFiles ==
    /\ InitCommon
    /\ cache = [f \in Docs |-> NoFrontmatter]
    /\ \/ mapMarkers = <<>>
       \/ mapMarkers = <<[id |-> "A", path |-> NoPath, files |-> <<"d1", "d2">>,
                          lastAccessed |-> 0, markers |-> <<StoredMarker>>,
                          overlays |-> <<StoredOverlay>>]>>

NextFiles ==
    \/ OnLoad
    \/ \E el \in ElsToRender, f \in Docs, p \in FilesBlocks : RenderStart(el, paths[f], p)
    \/ \E ref \in 1..MaxObj : RenderLoad(ref) \/ RenderRegister(ref, TRUE)
    \/ \E ref \in 1..MaxObj : MarkerAdded(ref, "pin", <<1, 2>>, "x")
    \/ \E ref \in 1..MaxObj : MarkerDataUpdated(ref, 1, <<0, 0>>)
    \/ \E h \in pending : MarkerDataUpdatedResume(h)
    \/ VaultRename("f1", "d3")
    \/ VaultDelete("f2")

SpecFiles == InitFiles /\ [][NextFiles]_vars

----------------------------------------------------------------------------
(* Maps bound to two documents: notifications for one document and for the
   other, beside a marker the user placed and an overlay of the block *)

ScopeBlocks ==
    {Block("A", "real", <<Length("1", "m")>>, <<"f1", "f2">>),
     Block("A", "real", <<Length("1", "m")>>, <<"f2">>)}

ScopeVersions ==
    {Doc(Loc12, Overlays(<<Length("5", "m")>>)),
     Doc(Loc00, Overlays(<<Length("1", "km")>>))}

InitScope ==
    /\ InitCommon
    /\ mapMarkers = <<>>
    /\ cache = [f \in Docs |-> Doc(Loc12, Overlays(<<Length("5", "m")>>))]

NextScope ==
    \/ OnLoad
    \/ \E el \in ElsToRender, p \in ScopeBlocks :
           Len(heap) < MaxBound /\ RenderStart(el, "d2", p)
    \/ \E ref \in 1..MaxObj : RenderLoad(ref) \/ RenderRegister(ref, TRUE)
    \/ \E ref \in 1..MaxObj : MarkerAdded(ref, "pin", <<1, 2>>, "x")
    \/ \E f \in Docs, v \in ScopeVersions : MetadataChanged(f, v)
    \/ \E f \in Docs : VaultDelete(f)
    \/ VaultRename("f1", "d3")

SpecScope == InitScope /\ [][NextScope]_vars

----------------------------------------------------------------------------
(* Properties *)

Registered == Range(maps)

SameMap(r, a) == heap[r].id = heap[a].id

Copies(markers, id) == Cardinality({i \in 1..Len(markers) : markers[i].id = id})

\* the record of a map id in the durable store, or Absent
RecordOf(id) == LET Is(r) == r.id = id IN FindFirst(mapMarkers, Is)

\* the operations that ran a save cycle to its end
SaveOps ==
    {"load", "render-done", "marker-added", "marker-data-updated", "context-edited",
     "delete-saved", "rename-saved"}

\* C1. Sibling sync on add: once the marker-added handler of a marker placed in
\* view A has run, every other registered view of the same map id holds a
\* marker with the same id, type and location, view A holds the marker once,
\* and the views of another map id are as they were.
C1_SiblingSyncOnAdd ==
    [][ev'.op = "marker-added" =>
          LET a == ev'.ref
              m == GetMarkerById(heap'[a].markers, ev'.mid)
          IN /\ \A r \in Range(maps') :
                    (r # a /\ heap'[r].id = heap'[a].id) =>
                        \E i \in 1..Len(heap'[r].markers) :
                            /\ heap'[r].markers[i].id = m.id
                            /\ heap'[r].markers[i].type = m.type
                            /\ heap'[r].markers[i].loc = m.loc
             /\ Copies(heap'[a].markers, m.id) = 1
             /\ \A r \in 1..Len(heap) : heap[r].id # heap[a].id => heap'[r] = heap[r]
      ]_vars

\* a marker was just added in a view that has a registered sibling, while a
\* view of another map id is registered
C1_Witness ==
    /\ ev.op = "marker-added"
    /\ \E r \in Registered : r # ev.ref /\ SameMap(r, ev.ref) /\ HasMarker(heap[r].markers, ev.mid)
    /\ \E r \in Registered : ~SameMap(r, ev.ref)

\* C2. No data loss across views: after each completed save cycle the durable
\* record of a map id contains every mutable marker held by any registered
\* view of that id.
C2_NoDataLoss ==
    ev.op \in SaveOps =>
        \A r \in Registered : \A i \in 1..Len(heap[r].markers) :
            heap[r].markers[i].mutable =>
                /\ RecordOf(heap[r].id) # Absent
                /\ \E j \in 1..Len(RecordOf(heap[r].id).markers) :
                       RecordOf(heap[r].id).markers[j].id = heap[r].markers[i].id

\* C3. Ordering of broadcast and save: when the save cycle triggered by a
\* mutation of a marker (added, data updated, context edit) has run, every
\* sibling's copy of the marker already carries the originator's state, and the
\* record written for the map id carries the originator's final marker state.
C3_BroadcastBeforeSave ==
    ev.op \in {"marker-added", "marker-data-updated", "context-edited"} =>
        LET a == ev.ref
            m == GetMarkerById(heap[a].markers, ev.mid)
            rec == RecordOf(heap[a].id)
        IN m # Absent =>
            /\ \A r \in Registered :
                   (SameMap(r, a) /\ HasMarker(heap[r].markers, m.id)) =>
                       MarkerData(GetMarkerById(heap[r].markers, m.id)) = MarkerData(m)
            /\ rec # Absent
            /\ \E j \in 1..Len(rec.markers) : rec.markers[j] = MarkerData(m)

\* the map id has a registered view
Viewed(refs, hp, id) == \E v \in Range(refs) : hp[v].id = id

\* milliseconds since the record was last written by a view
Age(r) == now - r.lastAccessed

\* C4. GC of unattached stale records: a save cycle removes every record of a
\* map id that has no registered view, an empty files list and lastAccessed
\* more than 604800000 ms before now, and keeps such a record whose
\* lastAccessed is at most 604800000 ms before now.
C4_GCUnattachedStale ==
    [][ev'.op \in SaveOps =>
          \A i \in 1..Len(mapMarkers) :
              LET r == mapMarkers[i]
              IN (r.id # NoId /\ ~Viewed(maps', heap', r.id) /\ r.files = <<>>) =>
                     IF Age(r) > RetentionMs
                     THEN r \notin Range(mapMarkers') /\ r.id \in ev'.gc
                     ELSE r \in Range(mapMarkers')
      ]_vars

\* a save cycle has just dropped a stale record while an unattached record
\* without a view, exactly 7 days old, is still in the store
C4_Witness ==
    /\ ev.op \in SaveOps
    /\ ev.gc # {}
    /\ \E r \in Range(mapMarkers) :
           r.files = <<>> /\ ~Viewed(maps, heap, r.id) /\ Age(r) = RetentionMs

\* C5. Attached records are never garbage-collected: a save cycle keeps every
\* record whose files list is non-empty, whatever its lastAccessed; when a
\* registered view of the id rewrites the record, the id is not collected as
\* stale.
C5_AttachedNeverCollected ==
    [][ev'.op \in SaveOps =>
          \A i \in 1..Len(mapMarkers) :
              LET r == mapMarkers[i]
              IN r.files # <<>> =>
                     /\ r.id \notin ev'.gc
                     /\ ~Viewed(maps', heap', r.id) => r \in Range(mapMarkers')
      ]_vars

\* a save cycle has just run and an attached record without a view, older than
\* the retention window, is still in the store
C5_Witness ==
    /\ ev.op \in SaveOps
    /\ \E r \in Range(mapMarkers) :
           r.files # <<>> /\ ~Viewed(maps, heap, r.id) /\ Age(r) > 2 * RetentionMs

\* the overlays a document's current declarations give: the well-formed
\* entries, in order
Declared(c, fileId) ==
    IF c.fm /\ c.mapoverlay.kind = "array"
    THEN AddDeclared(<<>>, c.mapoverlay.entries, fileId)
    ELSE <<>>

\* C6. Binding replace semantics: after a content-change notification for a
\* bound document, the overlays of each watching map that are tagged with the
\* document's binding id are exactly those of the document's current mapoverlay
\* declarations.
C6_BindingReplace ==
    ev.op = "changed" =>
        \A r \in Range(Watching(heap, ev.doc)) :
            BoundOverlays(heap[r].overlays, BindId(r, ev.doc))
                = Declared(cache[ev.doc], BindId(r, ev.doc))

MalformedLocation(c) ==
    c.fm /\ c.location.kind = "array" /\ ~WellFormedLocation(c.location)

MalformedOverlay(c) ==
    /\ c.fm
    /\ c.mapoverlay.kind = "array"
    /\ \E i \in 1..Len(c.mapoverlay.entries) : ~Match(c.mapoverlay.entries[i]).ok

\* C7. Binding parse failure preserves state: a content-change notification
\* that carries a malformed location leaves the document's marker as it was,
\* and one that carries a malformed overlay declaration leaves the overlays
\* bound to the document as they were.
C7_ParseFailurePreserves ==
    [][ev'.op = "changed" =>
          \A r \in Range(Watching(heap, ev'.doc)) :
              LET fileId == BindId(r, ev'.doc)
              IN /\ MalformedLocation(cache'[ev'.doc]) =>
                        GetMarkerById(heap'[r].markers, fileId)
                            = GetMarkerById(heap[r].markers, fileId)
                 /\ MalformedOverlay(cache'[ev'.doc]) =>
                        BoundOverlays(heap'[r].overlays, fileId)
                            = BoundOverlays(heap[r].overlays, fileId)
      ]_vars

WellFormed(x) == Match(x.len).ok

\* C8. Malformed radius is local at render: the render of a block with a
\* malformed overlay radius is not aborted, and every well-formed overlay it
\* declares is in the map.
C8_MalformedRadiusLocal ==
    \A r \in 1..Len(heap) :
        (\E i \in 1..Len(heap[r].decl) : ~WellFormed(heap[r].decl[i])) =>
            /\ heap[r].pc # "error"
            /\ \A i \in 1..Len(heap[r].decl) :
                   WellFormed(heap[r].decl[i]) =>
                       \E j \in 1..Len(heap[r].overlays) :
                           /\ heap[r].overlays[j].id = heap[r].decl[i].id
                           /\ heap[r].overlays[j].radius = Match(heap[r].decl[i].len).radius
                           /\ heap[r].overlays[j].unit = Match(heap[r].decl[i].len).unit

\* an overlay of a map without the mutable flag
Stripped(x) == [id |-> x.id, radius |-> x.radius, unit |-> x.unit]

Occurrences(s, x) == Cardinality({i \in 1..Len(s) : s[i] = x})

\* C9. Overlay ordering at render: the overlays a render inserts are those the
\* block declares and those of its bound documents, in non-increasing order of
\* their radius in meters; radii [5m, 50m, 1m] are inserted as [50m, 5m, 1m].
C9_OverlayOrder ==
    ev.op = "render-items" =>
        LET o == heap[ev.ref]
            inserted == MapSeq(o.overlays, Stripped)
            parsed == OverlayArray(o.decl)
        IN /\ Len(inserted) = Len(parsed)
           /\ \A i \in 1..Len(parsed) :
                  Occurrences(inserted, parsed[i]) = Occurrences(parsed, parsed[i])
           /\ \A i \in 1..(Len(inserted) - 1) :
                  ToMeters(inserted[i].radius, inserted[i].unit)
                      >= ToMeters(inserted[i + 1].radius, inserted[i + 1].unit)
           /\ DeclaredBy(o) = <<Length("5", "m"), Length("50", "m"), Length("1", "")>>
              /\ Len(parsed) = 3
                  => <<inserted[1].radius, inserted[2].radius, inserted[3].radius>>
                         = <<50, 5, 1>>

\* a render has just inserted three or more overlays of two or more units,
\* one of them from a bound document, in another order than declared
C9_Witness ==
    /\ ev.op = "render-items"
    /\ Len(heap[ev.ref].overlays) >= 3
    /\ \E i \in 1..Len(heap[ev.ref].overlays) : heap[ev.ref].overlays[i].id # 0
    /\ Cardinality({heap[ev.ref].overlays[i].unit :
                        i \in 1..Len(heap[ev.ref].overlays)}) >= 2
    /\ MapSeq(heap[ev.ref].overlays, Stripped) # OverlayArray(heap[ev.ref].decl)

\* C10. Idempotent removal: the delete handler of a bound document and the
\* sibling loop of the context deletion, when their lookup of the marker
\* fails, leave the map's markers as they were and run to their end; removing
\* an absent marker, or a marker a second time, changes nothing.
C10_IdempotentRemoval ==
    [][/\ ev'.op \in {"delete", "delete-saved"} =>
              \A r \in ev'.miss :
                  /\ heap'[r].markers = heap[r].markers
                  /\ ev'.doc \notin heap'[r].watchers
                  /\ BoundOverlays(heap'[r].overlays, BindId(r, ev'.doc)) = <<>>
       /\ ev'.op = "context-deleted" =>
              /\ \A r \in ev'.miss : heap'[r].markers = heap[r].markers
              /\ \A h \in pending \ pending' :
                     h.kind = "context" =>
                         \A i \in 1..Len(h.others) :
                             ~HasMarker(heap'[h.others[i]].markers, h.mid)
       /\ \A r \in 1..Len(heap) :
              /\ RemoveMarker(heap[r].markers, Absent) = heap[r].markers
              /\ \A i \in 1..Len(heap[r].markers) :
                     LET m == heap[r].markers[i]
                     IN RemoveMarker(RemoveMarker(heap[r].markers, m), m)
                            = RemoveMarker(heap[r].markers, m)
      ]_vars

\* a bound document was just deleted and the delete handler of a map that
\* holds markers found no marker of the document
C10_Witness ==
    /\ ev.op \in {"delete", "delete-saved"}
    /\ \E r \in ev.miss : heap[r].markers # <<>>

\* C11. Context removal reaches every sibling: once the close handler of a
\* context deletion has run, no registered view of the marker's map id holds a
\* marker with that id.
C11_ContextRemovalReachesAll ==
    ev.op = "context-deleted" =>
        \A r \in Registered :
            SameMap(r, ev.ref) => ~HasMarker(heap[r].markers, ev.mid)

\* the views a broadcast of marker mid from view ref reaches that hold no
\* marker of that id
Missing(refs, hp, ref, mid) ==
    {r \in Range(Siblings(refs, hp, ref)) : ~HasMarker(hp[r].markers, mid)}

\* C12. A missing sibling marker is skipped, never an error: a broadcast
\* (marker dragging, marker data updated, context edit, context deletion)
\* leaves a sibling without a marker of the broadcast id unchanged and raises
\* no error; the context edit still updates the siblings that hold the marker
\* and runs its save cycle.
C12_MissingSiblingSkipped ==
    [][/\ ev'.op \in {"marker-dragging", "marker-data-updated-done"} =>
              \A r \in Missing(maps, heap, ev'.ref, ev'.mid) : heap'[r] = heap[r]
       /\ ev'.op \in {"context-deleted", "context-edited", "context-error"} =>
              \A h \in pending \ pending' :
                  h.kind = "context" =>
                      /\ ev'.op # "context-error"
                      /\ \A i \in 1..Len(h.others) :
                             IF h.found[i]
                             THEN ev'.op = "context-edited"
                                      /\ HasMarker(heap[h.others[i]].markers, h.mid) =>
                                  MarkerData(GetMarkerById(heap'[h.others[i]].markers, h.mid))
                                      = MarkerData(GetMarkerById(heap'[h.ref].markers, h.mid))
                             ELSE heap'[h.others[i]] = heap[h.others[i]]
                      /\ ev'.op = "context-edited" =>
                             mapMarkers' = SaveSettings(mapMarkers, maps, heap', mapFiles, now)
      ]_vars

\* C13. Re-entrant removal during an in-flight update: when a
\* marker-data-updated handler resumes after its save, a sibling from which
\* the marker has been removed meanwhile is left as it is (the marker is not
\* re-created), the store is not written and the handler runs to its end.
C13_ReentrantRemoval ==
    [][ev'.op = "marker-data-updated-done" =>
          /\ \A r \in Range(maps) :
                 (r # ev'.ref /\ SameMap(r, ev'.ref)
                      /\ ~HasMarker(heap[r].markers, ev'.mid)) =>
                     /\ heap'[r] = heap[r]
                     /\ ~HasMarker(heap'[r].markers, ev'.mid)
          /\ mapMarkers' = mapMarkers
          /\ \A h \in pending' : ~(h.kind = "updated" /\ h.ref = ev'.ref /\ h.mid = ev'.mid)
      ]_vars

\* an update handler has just resumed after the marker was removed, while it
\* was suspended, from its own view and from a registered sibling
C13_Witness ==
    /\ ev.op = "marker-data-updated-done"
    /\ ~HasMarker(heap[ev.ref].markers, ev.mid)
    /\ \E r \in Registered :
           r # ev.ref /\ SameMap(r, ev.ref) /\ ~HasMarker(heap[r].markers, ev.mid)

\* the view a save cycle builds the record of map id from: the last
\* registered view of that id
LastView(id) ==
    LET ix == CHOOSE i \in 1..Len(maps) :
                  heap[maps[i]].id = id /\ \A j \in (i + 1)..Len(maps) : heap[maps[j]].id # id
    IN maps[ix]

MutableOnes(s) == {i \in 1..Len(s) : s[i].mutable}

\* C14. Only mutable entities are persisted: after a save cycle the record of
\* an active map holds exactly the mutable markers and mutable overlays of the
\* view it was built from (no record when there are none), and no record of
\* the store holds a marker with the id of an external binding.
C14_OnlyMutablePersisted ==
    ev.op \in SaveOps =>
        /\ \A r \in Registered :
               LET v == heap[LastView(heap[r].id)]
                   rec == RecordOf(heap[r].id)
                   ms == IF rec = Absent THEN <<>> ELSE rec.markers
                   os == IF rec = Absent THEN <<>> ELSE rec.overlays
               IN /\ Len(ms) = Cardinality(MutableOnes(v.markers))
                  /\ \A i \in MutableOnes(v.markers) :
                         \E j \in 1..Len(ms) :
                             /\ ms[j].id = v.markers[i].id
                             /\ ms[j].loc = v.markers[i].loc
                  /\ Len(os) = Cardinality(MutableOnes(v.overlays))
                  /\ \A i \in MutableOnes(v.overlays) :
                         \E j \in 1..Len(os) :
                             /\ os[j].radius = v.overlays[i].radius
                             /\ os[j].unit = v.overlays[i].unit
        /\ \A k \in 1..Len(mapMarkers) : \A j \in 1..Len(mapMarkers[k].markers) :
               \A r \in 1..Len(heap), d \in Docs :
                   mapMarkers[k].markers[j].id # BindId(r, d)

\* a save cycle has just written the record of a view that holds a marker and
\* overlays of a bound document beside a mutable marker and a mutable overlay
C14_Witness ==
    /\ ev.op \in SaveOps
    /\ \E r \in Registered :
           /\ r = LastView(heap[r].id)
           /\ RecordOf(heap[r].id) # Absent
           /\ \E i \in 1..Len(heap[r].markers) : ~heap[r].markers[i].mutable
           /\ \E i \in 1..Len(heap[r].markers) : heap[r].markers[i].mutable
           /\ \E i \in 1..Len(heap[r].overlays) :
                  ~heap[r].overlays[i].mutable /\ heap[r].overlays[i].id # 0
           /\ \E i \in 1..Len(heap[r].overlays) : heap[r].overlays[i].mutable

RecordsOf(id) == {k \in 1..Len(mapMarkers) : mapMarkers[k].id = id}

\* C15. Replace by id: after a save cycle the store holds at most one record
\* of each map id that has a registered view, and that record is the one the
\* cycle built from the last registered view of the id (none when that view
\* holds nothing to persist).
C15_ReplaceById ==
    ev.op \in SaveOps =>
        \A r \in Registered :
            LET id == heap[r].id
                v == heap[LastView(id)]
            IN /\ Cardinality(RecordsOf(id)) <= 1
               /\ \A k \in RecordsOf(id) :
                      /\ mapMarkers[k].lastAccessed = now
                      /\ mapMarkers[k].files = FilesOf(mapFiles, id)
                      /\ Len(mapMarkers[k].markers) = Cardinality(MutableOnes(v.markers))
                      /\ Len(mapMarkers[k].overlays) = Cardinality(MutableOnes(v.overlays))
               /\ RecordsOf(id) = {} =>
                      MutableOnes(v.markers) = {} /\ MutableOnes(v.overlays) = {}

\* a save cycle that started from a store with two records of a map id, one of
\* them appended by a migration, has just run with two views of that id
\* registered, and left one record of the id
C15_Witness ==
    /\ ev.op \in SaveOps
    /\ \E r, q \in Registered :
           /\ r # q
           /\ SameMap(r, q)
           /\ heap[r].id \in ev.dup
           /\ Cardinality(RecordsOf(heap[r].id)) = 1

\* C16. Bound-document deletion: the deletion notification of a bound
\* document leaves, in every map that watched it, no marker with the
\* document's binding id, no overlay tagged with it and no watcher of it; a
\* change or rename notification for a document a map does not watch leaves
\* that map unchanged.
C16_BoundDocumentDeletion ==
    [][/\ ev'.op \in {"delete", "delete-saved"} =>
              \A r \in Range(Watching(heap, ev'.doc)) :
                  /\ ~HasMarker(heap'[r].markers, BindId(r, ev'.doc))
                  /\ BoundOverlays(heap'[r].overlays, BindId(r, ev'.doc)) = <<>>
                  /\ ev'.doc \notin heap'[r].watchers
       /\ ev'.op \in {"changed", "rename", "rename-saved"} =>
              \A r \in 1..Len(heap) :
                  ev'.doc \notin heap[r].watchers => heap'[r] = heap[r]
      ]_vars

\* a change notification has just been delivered for a document that declares
\* a location and an overlay, to a registered map that was bound to it at
\* render and lost the binding by the document's deletion
C16_Witness ==
    /\ ev.op = "changed"
    /\ Declared(cache[ev.doc], 0) # <<>>
    /\ WellFormedLocation(cache[ev.doc].location)
    /\ \E r \in Registered :
           /\ \E i \in 1..Len(heap[r].decl) : heap[r].decl[i].id = BindId(r, ev.doc)
           /\ ev.doc \notin heap[r].watchers
           /\ ~HasMarker(heap[r].markers, BindId(r, ev.doc))
           /\ BoundOverlays(heap[r].overlays, BindId(r, ev.doc)) = <<>>

\* C17. Bound-document rename: a rename notification for a bound document sets
\* the link of its bound marker to the new link text and changes nothing else
\* of the map.
C17_BoundDocumentRename ==
    [][ev'.op \in {"rename", "rename-saved"} =>
          \A r \in Range(Watching(heap, ev'.doc)) :
              LET fileId == BindId(r, ev'.doc)
              IN /\ Len(heap'[r].markers) = Len(heap[r].markers)
                 /\ \A i \in 1..Len(heap[r].markers) :
                        heap'[r].markers[i] =
                            IF heap[r].markers[i].id = fileId
                            THEN [heap[r].markers[i] EXCEPT !.link = paths'[ev'.doc]]
                            ELSE heap[r].markers[i]
                 /\ heap'[r].overlays = heap[r].overlays
                 /\ heap'[r].watchers = heap[r].watchers
      ]_vars

\* C18. Bound-marker location update: a content-change notification sets the
\* bound marker's location to the document's location field exactly when the
\* field is an array of exactly two numbers; otherwise the location is
\* unchanged; the marker keeps its id and the map its number of markers.
C18_BoundMarkerLocation ==
    [][ev'.op = "changed" =>
          \A r \in Range(Watching(heap, ev'.doc)) :
              LET fileId == BindId(r, ev'.doc)
                  location == cache'[ev'.doc].location
                  m == GetMarkerById(heap[r].markers, fileId)
              IN /\ Len(heap'[r].markers) = Len(heap[r].markers)
                 /\ \A i \in 1..Len(heap[r].markers) :
                        heap'[r].markers[i].id = heap[r].markers[i].id
                 /\ m # Absent =>
                        GetMarkerById(heap'[r].markers, fileId).loc =
                            IF /\ location.kind = "array"
                               /\ Len(location.elems) = 2
                               /\ location.elems[1].isNum
                               /\ location.elems[2].isNum
                            THEN <<location.elems[1].v, location.elems[2].v>>
                            ELSE m.loc
      ]_vars

\* a change notification has just moved the bound marker of a map
C18_Witness ==
    /\ ev.op = "changed"
    /\ \E r \in ev.moved :
           GetMarkerById(heap[r].markers, BindId(r, ev.doc)).loc
               = LatLng(cache[ev.doc].location)

\* C19. Missing id is fatal for that render only: the render of a block
\* without an id ends in the error state and changes neither the registry, the
\* document-to-map associations, the watchers, the store nor any map; no map,
\* registered view, association or record is ever without an id because of it.
C19_MissingIdFatal ==
    [][/\ (ev'.op = "render-error" /\ ev'.ref = 0) =>
              /\ maps' = maps
              /\ mapFiles' = mapFiles
              /\ mapMarkers' = mapMarkers
              /\ heap' = heap
              /\ pending' = pending
       /\ \A r \in 1..Len(heap') : heap'[r].id # NoId
       /\ \A i \in 1..Len(mapFiles') : \A j \in 1..Len(mapFiles'[i].maps) :
              mapFiles'[i].maps[j] # NoId
      ]_vars

\* the render of a block without an id that names a bound document has just
\* failed while a view is registered and the store holds a record
C19_Witness ==
    /\ ev.op = "render-error"
    /\ ev.ref = 0
    /\ Registered # {}
    /\ mapMarkers # <<>>
    /\ \E r \in Registered : heap[r].watchers # {}

\* C20. Unresolvable image layer aborts that view only: a render whose image
\* layers cannot be resolved ends in the error state; the view is not added to
\* the registry or the document-to-map associations, no save cycle runs, and
\* the other maps are unchanged; a view in the error state is never registered.
C20_UnresolvableLayerAborts ==
    [][/\ (ev'.op \in {"render-error", "render-done"} /\ ~ev'.layers) =>
              /\ ev'.op = "render-error"
              /\ heap'[ev'.ref].pc = "error"
              /\ maps' = maps
              /\ mapFiles' = mapFiles
              /\ mapMarkers' = mapMarkers
              /\ \A r \in 1..Len(heap) : r # ev'.ref => heap'[r] = heap[r]
       /\ \A r \in Range(maps') : heap'[r].pc # "error"
      ]_vars

\* the render of an image map has just failed on its layers, after it loaded
\* a marker from the record, while another view of the map is registered
C20_Witness ==
    /\ ev.op = "render-error"
    /\ ~ev.layers
    /\ heap[ev.ref].markers # <<>>
    /\ ev.ref \notin Registered
    /\ \E r \in Registered : SameMap(r, ev.ref) /\ heap[r].markers # <<>>

\* the value _getCoordinates reads for component i of the call: the block's
\* lat or long, a coordinate, or an element of the linked document's location
Supplied(i) ==
    SelectedSource(ev.lat, ev.long, ev.coordinates, cache, paths)[i]

\* the value is absent or does not parse to a number
MissingOrNotNumeric(v) ==
    \/ v.t \in {"undefined", "null", "nan"}
    \/ v.t = "string" /\ (v.s = <<>> \/ ParseComponent(v).t = "nan")

\* the value is a number or a numeral
ValidNumber(v) ==
    \/ v.t = "number"
    \/ v.t = "string" /\ v.s # <<>> /\ ParseComponent(v).t = "number"

\* C21. Coordinate fallback: when the latitude or longitude supplied is
\* missing or does not parse to a number, the computation returns the map's
\* default for that component (50 for an image map, the settings value for a
\* real map), and the pair returned never contains a non-number.
C21_CoordinateFallback ==
    ev.op = "coords-return" =>
        \A i \in 1..2 :
            /\ ev.coords[i].t = "number"
            /\ MissingOrNotNumeric(Supplied(i)) =>
                   ev.coords[i].n = MapDefault(ev.type, ev.settings[i])

\* C27. Valid coordinates pass through unchanged: when both components
\* supplied are valid numbers, 0 included, the computation returns exactly
\* those two numbers.
C27_ValidPassThrough ==
    (ev.op = "coords-return" /\ ValidNumber(Supplied(1)) /\ ValidNumber(Supplied(2))) =>
        \A i \in 1..2 : ev.coords[i] = ParseComponent(Supplied(i))

\* C22. Marker-data-updated broadcast: when the marker-data-updated handler
\* of a marker has completed, the marker of that id in every sibling view that
\* has one carries the location, link and type of the originator's marker.
C22_UpdateBroadcast ==
    [][(/\ ev'.op = "marker-data-updated-done"
        /\ ev'.ref \in Range(maps')
        /\ HasMarker(heap'[ev'.ref].markers, ev'.mid)) =>
          \A r \in Range(Siblings(maps', heap', ev'.ref)) :
              HasMarker(heap'[r].markers, ev'.mid) =>
                  LET own == GetMarkerById(heap'[ev'.ref].markers, ev'.mid)
                      other == GetMarkerById(heap'[r].markers, ev'.mid)
                  IN /\ other.loc = own.loc
                     /\ other.link = own.link
                     /\ other.type = own.type
      ]_vars

\* C23. Empty records are dropped: after every save cycle no record of the
\* durable store has both an empty markers list and an empty overlays list;
\* an active map all of whose markers and overlays come from bindings has no
\* record.
C23_EmptyRecordsDropped ==
    ev.op \in SaveOps =>
        /\ \A k \in 1..Len(mapMarkers) :
               mapMarkers[k].markers # <<>> \/ mapMarkers[k].overlays # <<>>
        /\ \A r \in Registered :
               (\A v \in Registered :
                    SameMap(v, r) =>
                        MutableOnes(heap[v].markers) = {} /\ MutableOnes(heap[v].overlays) = {})
                   => RecordOf(heap[r].id) = Absent

\* a save cycle has just run while a registered view holds a marker and an
\* overlay of a bound document and nothing else, and its map id has no record
C23_Witness ==
    /\ ev.op \in SaveOps
    /\ \E r \in Registered :
           /\ heap[r].markers # <<>>
           /\ heap[r].overlays # <<>>
           /\ MutableOnes(heap[r].markers) = {}
           /\ MutableOnes(heap[r].overlays) = {}
           /\ RecordOf(heap[r].id) = Absent

\* the documents known to embed map id, by the associations mf
Embedding(mf, id) == {mf[i].file : i \in {k \in 1..Len(mf) : id \in Range(mf[k].maps)}}

C25_ContextDeletionPersisted ==
    [][ev'.op = "context-deleted" =>
          LET rec == FindFirst(mapMarkers', LAMBDA r : r.id = heap'[ev'.ref].id)
          IN rec # Absent => ~HasMarker(rec.markers, ev'.mid)
      ]_vars

\* C26. Active maps survive every save: after every save cycle, a map id with
\* a registered view that holds a mutable marker or a mutable overlay has a
\* record in the durable store.
C26_ActiveMapsSurvive ==
    ev.op \in SaveOps =>
        \A r \in Registered :
            (MutableOnes(heap[r].markers) # {} \/ MutableOnes(heap[r].overlays) # {}) =>
                RecordOf(heap[r].id) # Absent

\* the entities of a sequence that do not carry the id fileId
Others(s, fileId) == LET Other(x) == x.id # fileId IN SelectSeq(s, Other)

\* C28. Notifications are scoped to their binding: a change, delete or rename
\* notification for a document that a map does not watch leaves the map's
\* markers, overlays and watcher set unchanged, and a notification for a
\* bound document leaves every marker and overlay bound to another document
\* or placed by the user as it was.
C28_NotificationsScoped ==
    [][ev'.op \in {"changed", "delete", "delete-saved", "rename", "rename-saved"} =>
          \A r \in 1..Len(heap) :
              /\ ev'.doc \notin heap[r].watchers =>
                     /\ heap'[r].markers = heap[r].markers
                     /\ heap'[r].overlays = heap[r].overlays
                     /\ heap'[r].watchers = heap[r].watchers
              /\ Others(heap'[r].markers, BindId(r, ev'.doc))
                     = Others(heap[r].markers, BindId(r, ev'.doc))
              /\ Others(heap'[r].overlays, BindId(r, ev'.doc))
                     = Others(heap[r].overlays, BindId(r, ev'.doc))
              /\ heap'[r].watchers \ {ev'.doc} = heap[r].watchers \ {ev'.doc}
      ]_vars

\* a notification for f1 has just changed a map that is bound to f1 and f2
\* and holds a marker the user placed, an overlay of the block and an overlay
\* of f2, while another map watches f2 only
C28_Witness ==
    /\ ev.op \in {"changed", "delete", "delete-saved"}
    /\ ev.doc = "f1"
    /\ \E r \in 1..Len(heap) :
           /\ HasMarker(heap[r].markers, BindId(r, "f2"))
           /\ MutableOnes(heap[r].markers) # {}
           /\ \E i \in 1..Len(heap[r].overlays) : heap[r].overlays[i].id = BindId(r, "f2")
           /\ \E i \in 1..Len(heap[r].overlays) : heap[r].overlays[i].id = 0
           /\ "f2" \in heap[r].watchers
           /\ \/ ~HasMarker(heap[r].markers, BindId(r, "f1"))
              \/ GetMarkerById(heap[r].markers, BindId(r, "f1")).loc = <<0, 0>>
    /\ \E q \in 1..Len(heap) : heap[q].watchers = {"f2"}

\* the records of a store that satisfy the trigger condition of the migration
\* for a block of document src with the given image and id
Triggering(mm, src, image, id) ==
    {i \in 1..Len(mm) :
         \/ mm[i].path = <<src, image>> /\ mm[i].id = NoId
         \/ mm[i].path = <<src, id>>}

\* the store without its i-th record
Without(mm, i) == [k \in 1..(Len(mm) - 1) |-> IF k < i THEN mm[k] ELSE mm[k + 1]]

\* C29. Old-format migration keeps the data: when the store holds a record
\* that satisfies the trigger condition for the block rendered, the render
\* replaces exactly such a record by a record of the block's id with the same
\* markers and overlays and files = [the source document]; every other record
\* stays as it was.
C29_MigrationKeepsData ==
    [][(ev'.op \in {"render-items", "render-error"} /\ ev'.ref # 0) =>
          LET o == heap'[ev'.ref]
              T == Triggering(mapMarkers, o.src, o.image, o.id)
          IN IF T = {} THEN mapMarkers' = mapMarkers
             ELSE \E i \in T :
                      /\ Len(mapMarkers') = Len(mapMarkers)
                      /\ \A k \in 1..(Len(mapMarkers) - 1) :
                             mapMarkers'[k] = Without(mapMarkers, i)[k]
                      /\ LET new == mapMarkers'[Len(mapMarkers')]
                         IN /\ new.id = o.id
                            /\ new.markers = mapMarkers[i].markers
                            /\ new.overlays = mapMarkers[i].overlays
                            /\ new.files = <<o.src>>
      ]_vars

\* C30. One view per rendered element: the registry never holds two entries
\* of one element; a render that registers a view of an element removes the
\* element's earlier entry and keeps the entries of the other elements, so no
\* broadcast reaches two registered views of one element.
C30_OneViewPerElement ==
    [][/\ \A i, j \in 1..Len(maps') : i # j => heap'[maps'[i]].el # heap'[maps'[j]].el
       /\ ev'.op = "render-done" =>
              /\ maps'[Len(maps')] = ev'.ref
              /\ \A r \in Range(maps) :
                     r \in Range(maps') <=> heap[r].el # heap'[ev'.ref].el
       /\ \A r \in 1..Len(heap) :
              \A a, b \in Range(Siblings(maps, heap, r)) :
                  (a # b /\ heap[a].el = heap[b].el) =>
                      (heap'[a] = heap[a] \/ heap'[b] = heap[b])
      ]_vars

\* an element has just been rendered again: its earlier view has left the
\* registry, its new view and a view of another element are registered
C30_Witness ==
    /\ ev.op = "render-done"
    /\ \E r \in 1..Len(heap) :
           /\ r # ev.ref
           /\ heap[r].el = heap[ev.ref].el
           /\ heap[r].pc = "active"
           /\ r \notin Registered
    /\ ev.ref \in Registered
    /\ \E q \in Registered : heap[q].el # heap[ev.ref].el /\ SameMap(q, ev.ref)

============================================================================
